---- MODULE Spec2Model ----
(***************************************************************************)
(* Model of src/src/clustering/cluster_students_kmeans.py: the capacity-   *)
(* aware K-Means batch (choose_k, init_centroids, recompute_centroids,     *)
(* kmeans, main).                                                          *)
(*                                                                         *)
(* Floats are modelled as exact fractions <<num, den>> in lowest terms     *)
(* with den > 0; the value <<0, 0>> is NaN.  Rounding of IEEE doubles is   *)
(* not modelled.  random.seed(args.seed) fixes a stream of words, modelled *)
(* as a short sequence that repeats; `pos` counts the words consumed, and  *)
(* randbelow(m) is the next word modulo m.                                 *)
(***************************************************************************)
EXTENDS Integers, Sequences, FiniteSets, TLC

VARIABLES
    rows,             \* main: rows read from --in_csv, in file order
    target_capacity,  \* args.target_capacity
    max_iter,         \* args.max_iter
    stream,           \* the words random.seed(args.seed) determines, repeating
    pos,              \* number of draws consumed since random.seed(args.seed)
    groups,           \* main: groups dict, as a list in insertion order
    gi,               \* main: index of the group the for loop is at (1-based)
    n,                \* main: n = len(g)
    k,                \* main/kmeans: k
    points,           \* kmeans: points
    centroids,        \* kmeans: centroids
    assignments,      \* kmeans: assignments
    changed,          \* kmeans: changed
    it,               \* kmeans: number of loop iterations started
    pool,             \* random.sample: the pool still to draw from
    exit,             \* how the kmeans loop was left: "none", "break", "exhausted"
    used,             \* draws consumed by the current kmeans call, in order
    results,          \* per finished group: what kmeans returned and what it read
    out_rows,         \* main: out_rows
    summary_rows,     \* main: summary_rows
    total_clusters,   \* main: total_clusters
    run,              \* which invocation of the program this is (1 or 2)
    prev,             \* input and written output of the first invocation
    before,           \* assignments and number of draws when the iteration began
    pc                \* position in the program

vars == <<rows, target_capacity, max_iter, stream, pos, groups, gi, n, k, points,
          centroids, assignments, changed, it, pool, exit, used, results,
          out_rows, summary_rows, total_clusters, run, prev, before, pc>>

----------------------------------------------------------------------------
(* Bounds of the model *)

MaxN == 3        \* rows of one group
MaxIter == 3     \* largest --max_iter of a single-group run
BatchIter == 2   \* largest --max_iter of the two-group batches
MaxCap == 3      \* largest --target_capacity of a single-group run
BatchCap == 2    \* --target_capacity of the two-group batches
MaxKN == 12      \* largest n handed to choose_k on its own
MaxKCap == 6     \* largest target_capacity handed to choose_k on its own
Period == 2      \* words after which the stream of a seed repeats

\* home_lat, home_lng of the rows (integer-valued)
Points == {<<0, 0>>, <<2, 0>>, <<1, 1>>}
BatchPoints == {<<0, 0>>, <<2, 0>>}
\* the words of the streams
Words == 0 .. 2
BatchWords == 0 .. 1

----------------------------------------------------------------------------
(* Float arithmetic *)

NaN == <<0, 0>>

IsNan(v) == v[2] = 0

Abs(a) == IF a < 0 THEN -a ELSE a

RECURSIVE GCD(_, _)
GCD(a, b) == IF b = 0 THEN a ELSE GCD(b, a % b)

Norm(num, den) ==
    IF den = 0 THEN NaN
    ELSE LET g == GCD(Abs(num), den)
         IN  <<num \div g, den \div g>>

ToFloat(i) == <<i, 1>>

FAdd(a, b) ==
    IF IsNan(a) \/ IsNan(b) THEN NaN
    ELSE Norm(a[1] * b[2] + b[1] * a[2], a[2] * b[2])

FSub(a, b) ==
    IF IsNan(a) \/ IsNan(b) THEN NaN
    ELSE Norm(a[1] * b[2] - b[1] * a[2], a[2] * b[2])

FSq(a) == IF IsNan(a) THEN NaN ELSE Norm(a[1] * a[1], a[2] * a[2])

FDivInt(a, c) == IF IsNan(a) THEN NaN ELSE Norm(a[1], a[2] * c)

\* a < b on floats: false as soon as one side is NaN
FLess(a, b) == ~IsNan(a) /\ ~IsNan(b) /\ a[1] * b[2] < b[1] * a[2]

euclidean2(a, b) == FAdd(FSq(FSub(a[1], b[1])), FSq(FSub(a[2], b[2])))

----------------------------------------------------------------------------
(* choose_k *)

Max(a, b) == IF a >= b THEN a ELSE b
Min(a, b) == IF a <= b THEN a ELSE b

\* math.ceil(a / b) for a >= 0, b >= 1
CeilFloor(a, b) == a \div b
Ceil(a, b) == IF a % b = 0 THEN a \div b ELSE (a \div b) + 1

choose_k(nn, cap) ==
    IF nn <= 0 THEN 0
    ELSE Max(1, Min(Ceil(nn, Max(1, cap)), nn))

----------------------------------------------------------------------------
(* The random module: random.choice and random.sample over the seeded stream *)

randbelow(m, raw) == raw % m

\* the word the generator yields after pos words were consumed
Word == stream[(pos % Len(stream)) + 1]

\* random.seed(args.seed): the stream starts over
Unseeded == pos
Seeded == 0

choice(seq, raw) == seq[randbelow(Len(seq), raw) + 1]

\* one selection of random.sample's pool loop; i selections were made before
SamplePick(pl, i, raw) == pl[randbelow(Len(pl) - i, raw) + 1]
SamplePool(pl, i, raw) ==
    [pl EXCEPT ![randbelow(Len(pl) - i, raw) + 1] = pl[Len(pl) - i]]

----------------------------------------------------------------------------
(* kmeans: the assign step *)

CloserOrEqual(d, best_d) == ~FLess(best_d, d)
Closer(d, best_d) == FLess(d, best_d)

RECURSIVE ScanCentroids(_, _, _, _, _, _)
ScanCentroids(p, cs, kk, c, best_c, best_d) ==
    IF c >= kk THEN best_c
    ELSE LET d == euclidean2(p, cs[c + 1])
         IN  IF Closer(d, best_d)
             THEN ScanCentroids(p, cs, kk, c + 1, c, d)
             ELSE ScanCentroids(p, cs, kk, c + 1, best_c, best_d)

BestCentroid(p, cs, kk) == ScanCentroids(p, cs, kk, 1, 0, euclidean2(p, cs[1]))

AssignAll(pts, cs, kk) == [i \in 1 .. Len(pts) |-> BestCentroid(pts[i], cs, kk)]

----------------------------------------------------------------------------
(* recompute_centroids *)

RECURSIVE SumOf(_, _, _, _, _, _)
SumOf(pts, asg, c, j, i, acc) ==
    IF i > Min(Len(pts), Len(asg)) THEN acc
    ELSE SumOf(pts, asg, c, j, i + 1,
               IF asg[i] = c THEN FAdd(acc, pts[i][j]) ELSE acc)

CountOf(asg, c) == Cardinality({i \in 1 .. Len(asg) : asg[i] = c})

MeanByK(pts, asg, kk, c) ==
    <<FDivInt(SumOf(pts, asg, c, 1, 1, ToFloat(0)), kk),
      FDivInt(SumOf(pts, asg, c, 2, 1, ToFloat(0)), kk)>>
MeanOf(pts, asg, kk, c) ==
    <<FDivInt(SumOf(pts, asg, c, 1, 1, ToFloat(0)), CountOf(asg, c)),
      FDivInt(SumOf(pts, asg, c, 2, 1, ToFloat(0)), CountOf(asg, c))>>

KeepEmptyCentroids(pts, asg, kk) ==
    [c \in 1 .. kk |->
        IF CountOf(asg, c - 1) = 0 THEN centroids[c]
        ELSE MeanOf(pts, asg, kk, c - 1)]
KeepCentroids(pts, asg, kk) ==
    [c \in 1 .. kk |->
        IF CountOf(asg, c - 1) = 0 THEN <<NaN, NaN>>
        ELSE centroids[c]]
recompute_centroids(pts, asg, kk) ==
    [c \in 1 .. kk |->
        IF CountOf(asg, c - 1) = 0 THEN <<NaN, NaN>>
        ELSE MeanOf(pts, asg, kk, c - 1)]

\* the test of line 121
NeverNan(cen) == FALSE
CentroidIsNan(cen) == IsNan(cen[1]) \/ IsNan(cen[2])

NanClusters(cs) == {c \in 1 .. Len(cs) : CentroidIsNan(cs[c])}

SetMin(S) == CHOOSE x \in S : \A y \in S : x <= y

----------------------------------------------------------------------------
(* main: grouping, counting, formatting, sorting *)

AddRow(gs, r) ==
    IF \E i \in 1 .. Len(gs) : gs[i].key = r.key
    THEN LET i == CHOOSE j \in 1 .. Len(gs) : gs[j].key = r.key
         IN  [gs EXCEPT ![i].g = Append(@, r)]
    ELSE Append(gs, [key |-> r.key, g |-> <<r>>])

RECURSIVE GroupFold(_, _, _)
GroupFold(rs, i, gs) ==
    IF i > Len(rs) THEN gs ELSE GroupFold(rs, i + 1, AddRow(gs, rs[i]))

GroupRows(rs) == GroupFold(rs, 1, <<>>)

PointsOfAllRows(g) ==
    [i \in 1 .. Len(rows) |-> <<ToFloat(rows[i].pt[1]), ToFloat(rows[i].pt[2])>>]
PointsOf(g) == [i \in 1 .. Len(g) |-> <<ToFloat(g[i].pt[1]), ToFloat(g[i].pt[2])>>]

CountsFromOne(asg, kk) == [c \in 1 .. kk |-> 1 + CountOf(asg, c - 1)]
cluster_counts(asg, kk) == [c \in 1 .. kk |-> CountOf(asg, c - 1)]

RECURSIVE SumSeq(_)
SumSeq(s) == IF s = <<>> THEN 0 ELSE Head(s) + SumSeq(Tail(s))

Micro == 1000000

\* f"{v:.6f}", as the number of millionths (inputs of the model are >= 0)
Format6(v) ==
    IF IsNan(v) THEN [nan |-> TRUE, micro |-> 0]
    ELSE [nan |-> FALSE, micro |-> (2 * v[1] * Micro + v[2]) \div (2 * v[2])]

OutRowsOf(g, asg) ==
    [i \in 1 .. Min(Len(g), Len(asg)) |->
        [key |-> g[i].key, sid |-> g[i].sid, pt |-> g[i].pt, cluster |-> asg[i] + 1]]

SummaryRowsOf(key, cs, counts) ==
    [c \in 1 .. Len(cs) |->
        [key |-> key, cluster |-> c, cluster_size |-> counts[c],
         centroid_lat |-> Format6(cs[c][1]), centroid_lng |-> Format6(cs[c][2])]]

RECURSIVE LexLess(_, _)
LexLess(a, b) ==
    IF a = <<>> \/ b = <<>> THEN FALSE
    ELSE Head(a) < Head(b) \/ (Head(a) = Head(b) /\ LexLess(Tail(a), Tail(b)))

\* list.sort(key=...): stable, so equal keys keep their order
SortByKeys(s, keys) ==
    LET Rank(i) == 1 + Cardinality({j \in 1 .. Len(s) :
                        LexLess(keys[j], keys[i]) \/ (keys[j] = keys[i] /\ j < i)})
    IN  [r \in 1 .. Len(s) |-> s[CHOOSE i \in 1 .. Len(s) : Rank(i) = r]]

SortOutRows(s) == SortByKeys(s, [i \in 1 .. Len(s) |-> <<s[i].key, s[i].cluster, s[i].sid>>])
SortSummaryRows(s) == SortByKeys(s, [i \in 1 .. Len(s) |-> <<s[i].key, s[i].cluster>>])

----------------------------------------------------------------------------
(* Inputs *)

SeqsUpTo(S, lo, hi) == UNION {[1 .. m -> S] : m \in lo .. hi}

\* the rows of one group: key, student id (the row's place in the file), home
MkRows(key, pts, first) ==
    [i \in 1 .. Len(pts) |-> [key |-> key, sid |-> first + i - 1, pt |-> pts[i]]]

NoPrev == [rows |-> <<>>, results |-> <<>>, out_rows |-> <<>>, summary_rows |-> <<>>]

NoIteration == [assignments |-> <<>>, draws |-> 0]

Idle ==
    /\ pos = 0 /\ groups = <<>> /\ gi = 0 /\ n = 0 /\ k = 0
    /\ points = <<>> /\ centroids = <<>> /\ assignments = <<>>
    /\ changed = FALSE /\ it = 0 /\ pool = <<>> /\ exit = "none" /\ used = <<>>
    /\ results = <<>> /\ out_rows = <<>> /\ summary_rows = <<>>
    /\ total_clusters = 0 /\ run = 1 /\ prev = NoPrev /\ before = NoIteration

\* one invocation on a file whose rows share one group key
Init ==
    /\ \E pts \in SeqsUpTo(Points, 0, MaxN) : rows = MkRows(1, pts, 1)
    /\ target_capacity \in 1 .. MaxCap
    /\ max_iter \in 0 .. MaxIter
    /\ stream \in [1 .. Period -> Words]
    /\ pc = "main"
    /\ Idle

\* two invocations on a file with up to two group keys, under a known seed
InitBatch ==
    /\ \E g1 \in SeqsUpTo(BatchPoints, 1, MaxN), g2 \in SeqsUpTo(BatchPoints, 0, MaxN) :
          rows = MkRows(1, g1, 1) \o MkRows(2, g2, Len(g1) + 1)
    /\ target_capacity = BatchCap
    /\ max_iter \in 0 .. BatchIter
    /\ stream \in [1 .. Period -> BatchWords]
    /\ pc = "main"
    /\ Idle

\* choose_k on its own
InitK ==
    /\ n \in 0 .. MaxKN
    /\ target_capacity \in 0 .. MaxKCap
    /\ rows = <<>> /\ max_iter = 0
    /\ pc = "choose_k"
    /\ stream = <<0>> /\ pos = 0 /\ groups = <<>> /\ gi = 0 /\ k = 0
    /\ points = <<>> /\ centroids = <<>> /\ assignments = <<>>
    /\ changed = FALSE /\ it = 0 /\ pool = <<>> /\ exit = "none" /\ used = <<>>
    /\ results = <<>> /\ out_rows = <<>> /\ summary_rows = <<>>
    /\ total_clusters = 0 /\ run = 1 /\ prev = NoPrev /\ before = NoIteration

----------------------------------------------------------------------------
(* main *)

\* lines 143-159: seed, read, group; ValueError on an empty file
MainStart ==
    /\ pc = "main"
    /\ pos' = Seeded
    /\ IF rows = <<>>
       THEN /\ pc' = "raised"
            /\ UNCHANGED <<groups, gi>>
       ELSE /\ groups' = GroupRows(rows)
            /\ gi' = 1
            /\ pc' = "group"
    /\ out_rows' = <<>> /\ summary_rows' = <<>> /\ total_clusters' = 0
    /\ UNCHANGED <<rows, target_capacity, max_iter, stream, n, k, points, centroids,
                   assignments, changed, it, pool, exit, used, results, run, prev, before>>

\* lines 160-165: the next group, its k and points, and the call of kmeans
MainGroup ==
    /\ pc = "group"
    /\ gi <= Len(groups)
    /\ n' = Len(groups[gi].g)
    /\ k' = choose_k(Len(groups[gi].g), target_capacity)
    /\ points' = PointsOf(groups[gi].g)
    /\ pc' = "kmeans"
    /\ UNCHANGED <<rows, target_capacity, max_iter, stream, pos, groups, gi, centroids,
                   assignments, changed, it, pool, exit, used, results, out_rows,
                   summary_rows, total_clusters, run, prev, before>>

\* lines 167-195: count the sizes, build the rows of the group
MainCollect ==
    /\ pc = "return"
    /\ LET counts == cluster_counts(assignments, k)
       IN  /\ out_rows' = out_rows \o OutRowsOf(groups[gi].g, assignments)
           /\ summary_rows' = summary_rows \o SummaryRowsOf(groups[gi].key, centroids, counts)
           /\ results' = Append(results,
                  [key |-> groups[gi].key, k |-> k,
                   pts |-> [i \in 1 .. Len(groups[gi].g) |-> groups[gi].g[i].pt],
                   assignments |-> assignments, centroids |-> centroids,
                   counts |-> counts, used |-> used, exit |-> exit, it |-> it])
    /\ total_clusters' = total_clusters + k
    /\ gi' = gi + 1
    /\ pc' = "group"
    /\ UNCHANGED <<rows, target_capacity, max_iter, stream, pos, groups, n, k, points,
                   centroids, assignments, changed, it, pool, exit, used, run, prev, before>>

\* lines 197-231: sort and write both files
MainFinish ==
    /\ pc = "group"
    /\ gi > Len(groups)
    /\ out_rows' = SortOutRows(out_rows)
    /\ summary_rows' = SortSummaryRows(summary_rows)
    /\ pc' = "done"
    /\ UNCHANGED <<rows, target_capacity, max_iter, stream, pos, groups, gi, n, k, points,
                   centroids, assignments, changed, it, pool, exit, used, results,
                   total_clusters, run, prev, before>>

----------------------------------------------------------------------------
(* kmeans *)

InitAssignments(m) == [i \in 1 .. m |-> 0]

\* lines 97-98 with init_centroids' first branch (k >= len(points))
KmeansInitAll ==
    /\ pc = "kmeans"
    /\ k >= Len(points)
    /\ centroids' = points
    /\ assignments' = InitAssignments(Len(points))
    /\ it' = 0 /\ exit' = "none" /\ used' = <<>> /\ changed' = FALSE
    /\ before' = NoIteration
    /\ pc' = "loop"
    /\ UNCHANGED <<rows, target_capacity, max_iter, stream, pos, groups, gi, n, k, points,
                   pool, results, out_rows, summary_rows, total_clusters, run, prev>>

\* line 63: random.sample(points, k) starts with a copy of the population
KmeansInitSample ==
    /\ pc = "kmeans"
    /\ k < Len(points)
    /\ pool' = points
    /\ centroids' = <<>>
    /\ it' = 0 /\ exit' = "none" /\ used' = <<>> /\ changed' = FALSE
    /\ before' = NoIteration
    /\ pc' = "sample"
    /\ UNCHANGED <<rows, target_capacity, max_iter, stream, pos, groups, gi, n, k, points,
                   assignments, results, out_rows, summary_rows, total_clusters,
                   run, prev>>

\* one selection of random.sample; after the k-th, line 98
SampleStep ==
    /\ pc = "sample"
    /\ centroids' = Append(centroids, SamplePick(pool, Len(centroids), Word))
    /\ pool' = SamplePool(pool, Len(centroids), Word)
    /\ used' = Append(used, Word)
    /\ pos' = pos + 1
    /\ IF Len(centroids) + 1 >= k
       THEN /\ assignments' = InitAssignments(Len(points))
            /\ pc' = "loop"
       ELSE /\ UNCHANGED assignments
            /\ pc' = "sample"
    /\ UNCHANGED <<rows, target_capacity, max_iter, stream, groups, gi, n, k, points,
                   changed, it, exit, results, out_rows, summary_rows, total_clusters,
                   run, prev, before>>

LoopTestOffByOne == it < max_iter + 1
LoopTest == it < max_iter

\* line 100-101: the for loop takes its next value, or is exhausted
LoopHead ==
    /\ pc = "loop"
    /\ IF LoopTest
       THEN /\ it' = it + 1
            /\ changed' = FALSE
            /\ before' = [assignments |-> assignments, draws |-> Len(used)]
            /\ pc' = "assign"
            /\ UNCHANGED exit
       ELSE /\ exit' = "exhausted"
            /\ pc' = "return"
            /\ UNCHANGED <<it, changed, before>>
    /\ UNCHANGED <<rows, target_capacity, max_iter, stream, pos, groups, gi, n, k, points,
                   centroids, assignments, pool, used, results, out_rows, summary_rows,
                   total_clusters, run, prev>>

\* lines 103-114
Assign ==
    /\ pc = "assign"
    /\ assignments' = AssignAll(points, centroids, k)
    /\ changed' = (changed \/ AssignAll(points, centroids, k) # assignments)
    /\ pc' = "recompute"
    /\ UNCHANGED <<rows, target_capacity, max_iter, stream, pos, groups, gi, n, k, points,
                   centroids, it, pool, exit, used, results, out_rows, summary_rows,
                   total_clusters, run, prev, before>>

\* lines 116-117
Recompute ==
    /\ pc = "recompute"
    /\ centroids' = recompute_centroids(points, assignments, k)
    /\ pc' = "reseed"
    /\ UNCHANGED <<rows, target_capacity, max_iter, stream, pos, groups, gi, n, k, points,
                   assignments, changed, it, pool, exit, used, results, out_rows,
                   summary_rows, total_clusters, run, prev, before>>

\* lines 120-123, one pass of the loop body that finds a NaN centroid: the
\* loop runs c upwards, so it is the lowest NaN cluster that is re-seeded next
ReseedOneUncounted ==
    /\ pc = "reseed"
    /\ NanClusters(centroids) # {}
    /\ centroids' = [centroids EXCEPT ![SetMin(NanClusters(centroids))] =
                        choice(points, Word)]
    /\ used' = Append(used, Word)
    /\ pos' = pos + 1
    /\ UNCHANGED <<rows, target_capacity, max_iter, stream, groups, gi, n, k, points,
                   assignments, changed, it, pool, exit, results, out_rows, summary_rows,
                   total_clusters, run, prev, before, pc>>
ReseedOne ==
    /\ pc = "reseed"
    /\ NanClusters(centroids) # {}
    /\ centroids' = [centroids EXCEPT ![SetMin(NanClusters(centroids))] =
                        choice(points, Word)]
    /\ used' = Append(used, Word)
    /\ pos' = pos + 1
    /\ changed' = TRUE
    /\ UNCHANGED <<rows, target_capacity, max_iter, stream, groups, gi, n, k, points,
                   assignments, it, pool, exit, results, out_rows, summary_rows,
                   total_clusters, run, prev, before, pc>>

\* lines 120-123: no NaN centroid is left when the loop over c ends
ReseedDone ==
    /\ pc = "reseed"
    /\ NanClusters(centroids) = {}
    /\ pc' = "check"
    /\ UNCHANGED <<rows, target_capacity, max_iter, stream, pos, groups, gi, n, k, points,
                   centroids, assignments, changed, it, pool, exit, used, results,
                   out_rows, summary_rows, total_clusters, run, prev, before>>

\* lines 125-126
CheckAlwaysBreaks ==
    /\ pc = "check"
    /\ exit' = "break"
    /\ pc' = "return"
    /\ UNCHANGED <<rows, target_capacity, max_iter, stream, pos, groups, gi, n, k, points,
                   centroids, assignments, changed, it, pool, used, results, out_rows,
                   summary_rows, total_clusters, run, prev, before>>
Check ==
    /\ pc = "check"
    /\ IF ~changed
       THEN /\ exit' = "break"
            /\ pc' = "return"
       ELSE /\ pc' = "loop"
            /\ UNCHANGED exit
    /\ UNCHANGED <<rows, target_capacity, max_iter, stream, pos, groups, gi, n, k, points,
                   centroids, assignments, changed, it, pool, used, results, out_rows,
                   summary_rows, total_clusters, run, prev, before>>

----------------------------------------------------------------------------
(* A second invocation with the same arguments *)

\* the file of the first invocation without the rows of its first group
DropFirstGroup(rs) == SelectSeq(rs, LAMBDA r : r.key # rs[1].key)

Rerun ==
    /\ pc = "done"
    /\ run = 1
    /\ run' = 2
    /\ prev' = [rows |-> rows, results |-> results, out_rows |-> out_rows,
                summary_rows |-> summary_rows]
    /\ rows' \in {rows, DropFirstGroup(rows)}
    /\ pc' = "main"
    /\ groups' = <<>> /\ gi' = 0 /\ n' = 0 /\ k' = 0
    /\ points' = <<>> /\ centroids' = <<>> /\ assignments' = <<>>
    /\ changed' = FALSE /\ it' = 0 /\ pool' = <<>> /\ exit' = "none" /\ used' = <<>>
    /\ results' = <<>> /\ out_rows' = <<>> /\ summary_rows' = <<>>
    /\ total_clusters' = 0 /\ before' = NoIteration
    /\ UNCHANGED <<target_capacity, max_iter, stream, pos>>

----------------------------------------------------------------------------
(* choose_k called on its own *)

CallChooseK ==
    /\ pc = "choose_k"
    /\ k' = choose_k(n, target_capacity)
    /\ pc' = "chosen"
    /\ UNCHANGED <<rows, target_capacity, max_iter, stream, pos, groups, gi, n, points,
                   centroids, assignments, changed, it, pool, exit, used, results,
                   out_rows, summary_rows, total_clusters, run, prev, before>>

----------------------------------------------------------------------------
(* Specifications *)

Next ==
    \/ MainStart
    \/ MainGroup
    \/ MainCollect
    \/ MainFinish
    \/ KmeansInitAll
    \/ KmeansInitSample
    \/ SampleStep
    \/ LoopHead
    \/ Assign
    \/ Recompute
    \/ ReseedOne
    \/ ReseedDone
    \/ Check

NextBatch == Next \/ Rerun

NextK == CallChooseK

Spec == Init /\ [][Next]_vars

SpecBatch == InitBatch /\ [][NextBatch]_vars

SpecK == InitK /\ [][NextK]_vars

----------------------------------------------------------------------------
(* Claims *)

SizeOf(c) == CountOf(assignments, c)

\* C1: for n >= 1 and target_capacity >= 1 choose_k returns the least k with
\* k * target_capacity >= n, i.e. ceil(n / target_capacity), and 1 <= k <= n;
\* for n = 0 it returns 0 whatever the capacity.
C1_ChooseKIsCeil ==
    pc = "chosen" =>
        /\ (n >= 1 /\ target_capacity >= 1) =>
              /\ k * target_capacity >= n
              /\ (k - 1) * target_capacity < n
              /\ 1 <= k /\ k <= n
        /\ (n = 0) => (k = 0)

C1_Witness == pc = "chosen" /\ n = 7 /\ target_capacity = 3 /\ k = 3

\* C2: when kmeans returns, every point of the group has one assignment, a
\* cluster index in [0, K) with K = choose_k(n, target_capacity), and the
\* sizes main counts for a group sum to the number of its rows.
C2_AssignmentsPartition ==
    /\ pc = "return" =>
          /\ k = choose_k(n, target_capacity)
          /\ Len(assignments) = n
          /\ \A i \in 1 .. n : assignments[i] \in 0 .. (k - 1)
    /\ \A j \in 1 .. Len(results) :
          /\ Len(results[j].counts) = results[j].k
          /\ SumSeq(results[j].counts) = Len(results[j].pts)

C2_Witness ==
    /\ pc = "done"
    /\ Len(results) = 1
    /\ results[1].k = 2 /\ Len(results[1].pts) = 3 /\ results[1].it = 2
    /\ results[1].counts = <<1, 2>>

\* What is left to do, as a number: cycles weigh more than the steps of one
\* cycle, groups more than the cycles of one group.
CycleWeight == Len(rows) + 5
GroupWeight == (max_iter + 2) * CycleWeight + 10
InCycle ==
    CASE pc = "assign" -> k + 4
      [] pc = "recompute" -> k + 3
      [] pc = "reseed" -> Cardinality(NanClusters(centroids)) + 2
      [] pc = "check" -> 1
      [] OTHER -> 0
InGroup ==
    CASE pc = "kmeans" -> (max_iter + 1) * CycleWeight + 5 + k
      [] pc = "sample" -> (max_iter + 1) * CycleWeight + 4 + (k - Len(centroids))
      [] pc \in {"loop", "assign", "recompute", "reseed", "check"} ->
             3 + (max_iter - it) * CycleWeight + InCycle
      [] pc = "return" -> 2
      [] OTHER -> 1
Remaining ==
    CASE pc = "main" -> (Len(rows) + 1) * GroupWeight + 2
      [] pc \in {"done", "raised"} -> 0
      [] pc = "group" -> (Len(groups) - gi + 1) * GroupWeight + 1
      [] OTHER -> (Len(groups) - gi) * GroupWeight + InGroup

\* C4: kmeans never starts more than max_iter assign/recompute cycles, and it
\* terminates: every step of the program lowers a natural number, also when a
\* cluster is re-seeded in every cycle.  (At each position before the end the
\* guards of the steps cover all cases; random.sample always has a pool left.)
C4_BoundedAndTerminates ==
    /\ [](it <= max_iter /\ Remaining >= 0)
    /\ [](pc = "sample" => (Len(centroids) < k /\ k < Len(pool)))
    /\ [][Remaining' < Remaining]_vars

\* K = n, so every draw is a re-seed; one in each of the max_iter cycles
C4_Witness ==
    /\ pc = "return" /\ exit = "exhausted"
    /\ max_iter = MaxIter /\ it = max_iter
    /\ k = n /\ Len(used) >= it

\* C6: after the re-seed step no centroid is NaN and every cluster without
\* points has the coordinates of a point of the group as its centroid; no
\* centroid kmeans returns or assigns against is NaN, for any max_iter >= 0.
C6_NoNanCentroid ==
    /\ pc \in {"loop", "assign", "check", "return"} =>
          /\ Len(centroids) = k
          /\ \A c \in 1 .. k : ~IsNan(centroids[c][1]) /\ ~IsNan(centroids[c][2])
    /\ pc = "check" =>
          \A c \in 1 .. k :
              SizeOf(c - 1) = 0 => \E i \in 1 .. Len(points) : centroids[c] = points[i]

C6_Witness ==
    /\ pc = "return"
    /\ \E c \in 1 .. k : SizeOf(c - 1) = 0 /\ centroids[c] \in {points[i] : i \in 1 .. n}
    /\ \E c \in 1 .. k : SizeOf(c - 1) > 1

\* C9: with n <= target_capacity and max_iter >= 1, K is 1, every point is in
\* cluster 0 and the one centroid is the mean of the rows' coordinates.
C9_SingleClusterMean ==
    (pc = "return" /\ n <= target_capacity /\ max_iter >= 1) =>
        /\ k = 1
        /\ \A i \in 1 .. n : assignments[i] = 0
        /\ \A j \in 1 .. 2 :
              /\ ~IsNan(centroids[1][j])
              /\ centroids[1][j][1] * n =
                    centroids[1][j][2] * SumSeq([i \in 1 .. n |-> groups[gi].g[i].pt[j]])

C9_Witness ==
    /\ pc = "return" /\ n = 3 /\ target_capacity = 3 /\ max_iter >= 1
    /\ centroids = << <<ToFloat(1), <<1, 3>> >> >>

\* C10: after an assign step every point has the index of a centroid at least
\* squared distance, and no centroid of a lower index is at that distance.
C10_NearestLowestIndex ==
    pc = "recompute" =>
        \A i \in 1 .. Len(points) :
            LET a == assignments[i]
                D(c) == euclidean2(points[i], centroids[c + 1])
            IN  /\ a \in 0 .. (k - 1)
                /\ \A c \in 0 .. (k - 1) :
                      /\ ~FLess(D(c), D(a))
                      /\ (c < a) => FLess(D(a), D(c))

\* a point at the same distance from two different centroids
C10_Witness ==
    /\ pc = "recompute"
    /\ \E i \in 1 .. Len(points) : \E c \in 0 .. (k - 1) :
          /\ c > assignments[i]
          /\ centroids[c + 1] # centroids[assignments[i] + 1]
          /\ euclidean2(points[i], centroids[c + 1]) =
                euclidean2(points[i], centroids[assignments[i] + 1])

\* C5 (as claimed): with K >= the number of points, every cluster ends with
\* exactly one point and its centroid is that point.
C5_OnePointPerCluster ==
    (pc = "return" /\ k >= Len(points) /\ max_iter >= 1) =>
        \A c \in 1 .. k :
            /\ SizeOf(c - 1) = 1
            /\ \E i \in 1 .. Len(points) : assignments[i] = c - 1 /\ centroids[c] = points[i]

\* C7 (as claimed): with max_iter >= 1 no cluster has size 0 when kmeans returns.
C7_NoEmptyCluster ==
    (pc = "return" /\ max_iter >= 1) => \A c \in 0 .. (k - 1) : SizeOf(c) >= 1

\* C3: a second invocation on the same rows with the same seed, capacity and
\* max_iter writes the same assignment rows and the same summary rows.
C3_SameInputSameOutput ==
    (pc = "done" /\ run = 2 /\ rows = prev.rows) =>
        /\ out_rows = prev.out_rows
        /\ summary_rows = prev.summary_rows

C3_Witness ==
    /\ pc = "done" /\ run = 2 /\ rows = prev.rows
    /\ Len(results) = 2
    /\ \A j \in 1 .. 2 : Len(results[j].used) > results[j].k
    /\ results[1].used # results[2].used

AllResults == {prev.results[j] : j \in 1 .. Len(prev.results)}
                  \cup {results[j] : j \in 1 .. Len(results)}

\* C8 (as claimed): what a group gets depends on nothing but its own rows, so a
\* group of the first invocation gets the same assignments and centroids in a
\* second invocation on a file that lacks the group processed before it.
C8_IndependentOfOtherGroups ==
    (pc = "done" /\ run = 2) =>
        \A i \in 1 .. Len(prev.results) : \A j \in 1 .. Len(results) :
            (prev.results[i].key = results[j].key /\ prev.results[i].pts = results[j].pts) =>
                /\ prev.results[i].assignments = results[j].assignments
                /\ prev.results[i].centroids = results[j].centroids

\* C8 (amended): the random stream is the one thing groups share; two
\* clusterings of the same points that consume the same draws return the same
\* assignments and centroids, whatever was processed before them.
C8_SameDrawsSameResult ==
    \A r1 \in AllResults : \A r2 \in AllResults :
        (r1.pts = r2.pts /\ r1.used = r2.used) =>
            /\ r1.k = r2.k
            /\ r1.assignments = r2.assignments
            /\ r1.centroids = r2.centroids

\* the second group of the first invocation is alone in the second one and
\* reads the same draws, the first group having read none
C8_Witness ==
    /\ pc = "done" /\ run = 2
    /\ Len(prev.results) = 2 /\ Len(results) = 1
    /\ prev.results[2].key = results[1].key
    /\ prev.results[2].pts = results[1].pts
    /\ prev.results[2].used = results[1].used
    /\ Len(results[1].used) > results[1].k

\* what the current iteration did so far, against the state it began with
Moved == assignments # before.assignments
Reseeded == Len(used) > before.draws

\* C11: within an iteration the steps run in the order assign, recompute,
\* re-seed, convergence check, each touching only what is its own; the check
\* leaves the loop exactly when the iteration changed no assignment and
\* re-seeded no centroid, and otherwise another iteration follows unless this
\* was iteration number max_iter.  So a return by the break follows an
\* iteration without change, and a return by exhaustion one with a change.
C11_StopsAtFirstQuietIteration ==
    /\ [][/\ (pc' = "assign") => (pc = "loop" /\ it' = it + 1)
          /\ (pc = "assign") =>
                (pc' = "recompute" /\ it' = it /\ centroids' = centroids /\ used' = used)
          /\ (pc = "recompute") =>
                (pc' = "reseed" /\ it' = it /\ assignments' = assignments /\ used' = used)
          /\ (pc = "reseed") =>
                (pc' \in {"reseed", "check"} /\ it' = it /\ assignments' = assignments)
          /\ (pc = "check") =>
                /\ it' = it /\ assignments' = assignments
                /\ centroids' = centroids /\ used' = used
                /\ IF Moved \/ Reseeded
                   THEN pc' = "loop"
                   ELSE pc' = "return" /\ exit' = "break"
          /\ (pc = "loop" /\ it >= 1) =>
                IF it < max_iter
                THEN pc' = "assign"
                ELSE pc' = "return" /\ exit' = "exhausted"]_vars
    /\ [](pc = "loop" /\ it >= 1 => (Moved \/ Reseeded))
    /\ [](pc = "return" /\ exit = "break" => (it >= 1 /\ ~Moved /\ ~Reseeded))
    /\ [](pc = "return" /\ exit = "exhausted" /\ max_iter >= 1 =>
            (it = max_iter /\ (Moved \/ Reseeded)))

\* a first iteration that moved points, a second that changed nothing, and
\* iterations still left
C11_Witness ==
    /\ pc = "return" /\ exit = "break"
    /\ it = 2 /\ it < max_iter
    /\ k >= 2 /\ \E i \in 1 .. n : assignments[i] # 0

\* the sum of coordinate j over the rows of the current group assigned to c
CoordSum(c, j) ==
    SumSeq([i \in 1 .. n |-> IF assignments[i] = c THEN groups[gi].g[i].pt[j] ELSE 0])

\* C12: when kmeans returns after at least one iteration, by the break or by
\* exhausting max_iter, the centroid of every cluster that has points is the
\* arithmetic mean of exactly the points the returned vector assigns to it.
C12_CentroidIsMeanOfAssigned ==
    (pc = "return" /\ it >= 1 /\ 1 <= k /\ k <= n) =>
        \A c \in 0 .. (k - 1) :
            SizeOf(c) >= 1 =>
                \A j \in 1 .. 2 :
                    /\ ~IsNan(centroids[c + 1][j])
                    /\ centroids[c + 1][j][1] * SizeOf(c) =
                          centroids[c + 1][j][2] * CoordSum(c, j)

\* max_iter exhausted by an iteration that moved points; two clusters with
\* points, one of them with a mean that is no point of the group
C12_Witness ==
    /\ pc = "return" /\ exit = "exhausted" /\ it >= 1
    /\ k = 2 /\ n = 3 /\ Moved
    /\ SizeOf(0) >= 1 /\ SizeOf(1) >= 1
    /\ \E c \in 1 .. k : centroids[c] \notin {points[i] : i \in 1 .. n}

\* C13: a return by the break is a fixed point of the iteration: every point
\* has the lowest index among the returned centroids nearest to it, and one
\* more assign and recompute would give the same assignments and centroids.
C13_BreakIsFixedPoint ==
    (pc = "return" /\ exit = "break") =>
        /\ \A i \in 1 .. Len(points) :
              LET a == assignments[i]
                  D(c) == euclidean2(points[i], centroids[c + 1])
              IN  \A c \in 0 .. (k - 1) :
                      /\ ~FLess(D(c), D(a))
                      /\ (c < a) => FLess(D(a), D(c))
        /\ AssignAll(points, centroids, k) = assignments
        /\ recompute_centroids(points, AssignAll(points, centroids, k), k) = centroids

\* a break after an iteration that moved points, with two clusters
C13_Witness ==
    /\ pc = "return" /\ exit = "break" /\ it >= 2
    /\ k = 2 /\ n = 3
    /\ \E i \in 1 .. n : assignments[i] = 1
    /\ centroids[1] # centroids[2]

\* C14: after a return by the break, with 1 <= K <= n, every cluster index in
\* [0, K) has a point; a returned cluster of size 0 means the loop ended by
\* exhausting max_iter (max_iter = 0 included).
C14_BreakLeavesNoEmptyCluster ==
    /\ (pc = "return" /\ exit = "break" /\ 1 <= k /\ k <= n) =>
          \A c \in 0 .. (k - 1) : SizeOf(c) >= 1
    /\ (pc = "return" /\ \E c \in 0 .. (k - 1) : SizeOf(c) = 0) =>
          (exit = "exhausted" /\ it = max_iter)

\* two rows with the same coordinates and a third apart, K = 2: a break with
\* both clusters filled, after an iteration that left a cluster without points
\* and re-seeded it (a draw beyond the K of random.sample)
C14_Witness ==
    /\ pc = "return" /\ exit = "break"
    /\ k = 2 /\ n = 3 /\ Len(used) > k
    /\ \E i \in 1 .. n : \E j \in 1 .. n : i # j /\ points[i] = points[j]
    /\ SizeOf(0) >= 1 /\ SizeOf(1) >= 1

====
